---- MODULE Spec2Model ----
(***************************************************************************)
(* The persistent store of the pomodoro timer (src-tauri/src/database.rs): *)
(* the tables tasks, pomodoro_sessions and daily_stats, and the command    *)
(* handlers that read and write them.  Every handler runs on its own       *)
(* worker with its own pooled connection and opens no transaction, so each *)
(* SQL statement commits on its own: one action of the model is one        *)
(* statement of one handler (a handler of a single statement is a single   *)
(* action).                                                                *)
(***************************************************************************)
EXTENDS Integers, Sequences, FiniteSets, TLC

VARIABLES
    tasks,          \* table tasks: id -> row
    sessions,       \* table pomodoro_sessions: id -> row
    daily_stats,    \* table daily_stats: date -> row
    foreign_keys,   \* whether the linked SQLite enforces FOREIGN KEY clauses
    uuids,          \* how many task ids and session ids uuid::new_v4 has given out
    now,            \* chrono::Utc::now(), in ticks
    procs,          \* the workers: the handler each runs, its position, its locals
    response,       \* what the handler that returned last gave back to its caller
    hist,           \* history: per session, the complete_pomodoro_session calls on it
    ncmds,          \* number of commands invoked so far
    baseline,       \* history: daily_stats as it was in the initial state
    schema,         \* the tables there are, the columns of tasks, the rows of db_version
    migrator        \* migrate_database: its position, its locals, its history

vars == <<tasks, sessions, daily_stats, foreign_keys, uuids, now, procs,
          response, hist, ncmds, baseline, schema, migrator>>

--------------------------------------------------------------------------
(* Bounds of the model *)

NProcs == 2
MaxCmds == 3
MaxNow == 2
TicksPerDay == 2

(* Option::None, SQL NULL *)
NULL == -1

Procs == 1..NProcs
Timestamps == 0..MaxNow

(* an id no row ever has: what a caller passes for a row that does not exist *)
BogusId == 0

(* chrono's format("%Y-%m-%d") of a timestamp, and SQLite's DATE(ts) *)
Date(ts) == ts \div TicksPerDay

Dates == {Date(ts) : ts \in Timestamps}

(* CHECK(session_type IN ('work', 'short_break', 'long_break')) *)
SessionTypes == {"work", "short_break", "long_break"}

(* inputs the callers are drawn from *)
Texts == {"a"}
StartInputs == {<<"work", 50>>, <<"short_break", 5>>, <<"nap", 5>>}
Durations == {25, 50}
UpdateInputs == {<<"b", 1, 2>>}

--------------------------------------------------------------------------
(* Rows *)

Task(text, ts) ==
    [text |-> text, completed |-> FALSE, created_at |-> ts, completed_at |-> NULL,
     priority |-> 0, estimated_pomodoros |-> 1, actual_pomodoros |-> 0]

PomodoroSession(task_id, session_type, duration_minutes, ts) ==
    [task_id |-> task_id, session_type |-> session_type,
     duration_minutes |-> duration_minutes, started_at |-> ts,
     completed_at |-> NULL, interrupted |-> FALSE]

(* created_at of daily_stats is written and never read by a handler: it is left
   out of the row *)
DailyStats(pomodoros, minutes, ntasks) ==
    [pomodoros_completed |-> pomodoros, total_work_time |-> minutes,
     tasks_completed |-> ntasks]

(* a table with the row of key k set to row r, and with that row removed *)
Put(table, k, r) == [x \in DOMAIN table \cup {k} |-> IF x = k THEN r ELSE table[x]]

Remove(table, k) == [x \in DOMAIN table \ {k} |-> table[x]]

EmptyTable == [x \in {} |-> NULL]

--------------------------------------------------------------------------
(* The SQL statements *)

(* mutant of UpdateTaskCompleted: a NULL ?2 leaves the column as it is *)
UpdateTaskCompleted_KeepsStamp(t, task_id, completed, completed_at) ==
    IF task_id \in DOMAIN t
    THEN [t EXCEPT ![task_id].completed = completed,
                   ![task_id].completed_at = IF completed_at = NULL THEN @
                                             ELSE completed_at]
    ELSE t

(* UPDATE tasks SET completed = ?1, completed_at = ?2 WHERE id = ?3 *)
UpdateTaskCompleted(t, task_id, completed, completed_at) ==
    IF task_id \in DOMAIN t
    THEN [t EXCEPT ![task_id].completed = completed,
                   ![task_id].completed_at = completed_at]
    ELSE t

(* INSERT OR REPLACE INTO daily_stats (date, tasks_completed, created_at)
   VALUES (?1, COALESCE((SELECT tasks_completed ...), 0) + 1, ?2):
   the row of the date is replaced whole; the columns the statement does not
   name take their DEFAULT 0 *)
ReplaceTasksCompleted(stats, date) ==
    Put(stats, date,
        DailyStats(0, 0,
                   (IF date \in DOMAIN stats THEN stats[date].tasks_completed ELSE 0) + 1))

(* mutant of UpdateTaskFields: the statement without its WHERE *)
UpdateTaskFields_NoWhere(t, task_id, text, priority, estimated) ==
    [k \in DOMAIN t |-> [t[k] EXCEPT !.text = text, !.priority = priority,
                                     !.estimated_pomodoros = estimated]]

(* UPDATE tasks SET text = ?1, priority = ?2, estimated_pomodoros = ?3 WHERE id = ?4 *)
UpdateTaskFields(t, task_id, text, priority, estimated) ==
    IF task_id \in DOMAIN t
    THEN [t EXCEPT ![task_id].text = text,
                   ![task_id].priority = priority,
                   ![task_id].estimated_pomodoros = estimated]
    ELSE t

(* mutant of OnDeleteSetNull: ON DELETE CASCADE, the sessions go with their task *)
OnDeleteSetNull_Cascade(s, task_id) ==
    [x \in {y \in DOMAIN s : s[y].task_id # task_id} |-> s[x]]

(* FOREIGN KEY(task_id) REFERENCES tasks(id) ON DELETE SET NULL, when enforced *)
OnDeleteSetNull(s, task_id) ==
    [x \in DOMAIN s |->
        IF s[x].task_id = task_id THEN [s[x] EXCEPT !.task_id = NULL] ELSE s[x]]

(* mutant of UpdateSessionCompleted: a row is written when the id has none *)
UpdateSessionCompleted_Upsert(s, session_id, completed_at, was_interrupted) ==
    IF session_id \in DOMAIN s
    THEN [s EXCEPT ![session_id].completed_at = completed_at,
                   ![session_id].interrupted = was_interrupted]
    ELSE Put(s, session_id,
             [PomodoroSession(NULL, "work", 25, 0)
                EXCEPT !.completed_at = completed_at,
                       !.interrupted = was_interrupted])

(* mutant of UpdateSessionCompleted: the statement sets started_at as well *)
UpdateSessionCompleted_Restart(s, session_id, completed_at, was_interrupted) ==
    IF session_id \in DOMAIN s
    THEN [s EXCEPT ![session_id].completed_at = completed_at,
                   ![session_id].interrupted = was_interrupted,
                   ![session_id].started_at = completed_at]
    ELSE s

(* UPDATE pomodoro_sessions SET completed_at = ?1, interrupted = ?2 WHERE id = ?3 *)
UpdateSessionCompleted(s, session_id, completed_at, was_interrupted) ==
    IF session_id \in DOMAIN s
    THEN [s EXCEPT ![session_id].completed_at = completed_at,
                   ![session_id].interrupted = was_interrupted]
    ELSE s

(* mutant of IncrementActualPomodoros: the counter goes down *)
IncrementActualPomodoros_Decrement(t, task_id) ==
    IF task_id \in DOMAIN t
    THEN [t EXCEPT ![task_id].actual_pomodoros = @ - 1]
    ELSE t

(* UPDATE tasks SET actual_pomodoros = actual_pomodoros + 1 WHERE id = ?1 *)
IncrementActualPomodoros(t, task_id) ==
    IF task_id \in DOMAIN t
    THEN [t EXCEPT ![task_id].actual_pomodoros = @ + 1]
    ELSE t

(* the minutes complete_pomodoro_session passes as ?2 of its upsert *)
WorkMinutes == 25

(* mutant of UpsertWorkSession: INSERT OR REPLACE of the same VALUES, which
   overwrites the row a concurrent completion has just written *)
UpsertWorkSession_Replace(stats, date, minutes) ==
    Put(stats, date, DailyStats(1, minutes, 0))

(* mutant of UpsertWorkSession: a new row of the date starts at 0 pomodoros *)
UpsertWorkSession_FromZero(stats, date, minutes) ==
    IF date \in DOMAIN stats
    THEN [stats EXCEPT ![date].pomodoros_completed = @ + 1,
                       ![date].total_work_time = @ + minutes]
    ELSE Put(stats, date, DailyStats(0, minutes, 0))

(* INSERT INTO daily_stats (date, pomodoros_completed, total_work_time, created_at)
   VALUES (?1, 1, ?2, ?3) ON CONFLICT(date) DO UPDATE SET
   pomodoros_completed = pomodoros_completed + 1,
   total_work_time = total_work_time + ?2 *)
UpsertWorkSession(stats, date, minutes) ==
    IF date \in DOMAIN stats
    THEN [stats EXCEPT ![date].pomodoros_completed = @ + 1,
                       ![date].total_work_time = @ + minutes]
    ELSE Put(stats, date, DailyStats(1, minutes, 0))

(* mutant of StatsByDate: with no row, the zero-valued DailyStats without the date
   asked for *)
StatsByDate_NoDate(stats, date) ==
    IF date \in DOMAIN stats
    THEN [date |-> date,
          pomodoros_completed |-> stats[date].pomodoros_completed,
          total_work_time |-> stats[date].total_work_time,
          tasks_completed |-> stats[date].tasks_completed]
    ELSE [date |-> NULL, pomodoros_completed |-> 0, total_work_time |-> 0,
          tasks_completed |-> 0]

(* get_daily_stats_by_date: the row of the date, zeros when there is none *)
StatsByDate(stats, date) ==
    IF date \in DOMAIN stats
    THEN [date |-> date,
          pomodoros_completed |-> stats[date].pomodoros_completed,
          total_work_time |-> stats[date].total_work_time,
          tasks_completed |-> stats[date].tasks_completed]
    ELSE [date |-> date, pomodoros_completed |-> 0, total_work_time |-> 0,
          tasks_completed |-> 0]

(* a session counted toward the totals: work, completed, not interrupted *)
Counted(row) ==
    row.session_type = "work" /\ row.completed_at # NULL /\ ~row.interrupted

(* days.unwrap_or(365) *)
DefaultDays == 365

(* chrono has no date this many days before now: checked_sub_signed gives None *)
OutOfRangeDays == 100000000

(* the first date of the window: now less the days asked for, or now when chrono
   cannot represent that *)
StartDate(days, ts) ==
    LET days_limit == IF days = NULL THEN DefaultDays ELSE days IN
    Date(IF days_limit < OutOfRangeDays THEN ts - days_limit * TicksPerDay ELSE ts)

(* mutant of HeatmapLevel: the third bucket one count wider *)
HeatmapLevel_Wider(count) ==
    CASE count = 0 -> 0
      [] count \in 1..2 -> 1
      [] count \in 3..6 -> 2
      [] count \in 7..9 -> 3
      [] OTHER -> 4

(* the level of a count *)
HeatmapLevel(count) ==
    CASE count = 0 -> 0
      [] count \in 1..2 -> 1
      [] count \in 3..5 -> 2
      [] count \in 6..9 -> 3
      [] OTHER -> 4

(* the closure that maps a row (date, count) of the SELECT to a HeatmapPoint *)
HeatmapPoint(date, count) ==
    [date |-> date, count |-> count, level |-> HeatmapLevel(count)]

(* the rows the SELECT of get_focus_heatmap groups under a date *)
HeatmapGroup(s, date) ==
    {x \in DOMAIN s : Counted(s[x]) /\ Date(s[x].started_at) = date}

(* ORDER BY date ASC *)
Ascending(dates) ==
    CHOOSE q \in [1..Cardinality(dates) -> dates] :
        \A i, j \in 1..Cardinality(dates) : i < j => q[i] < q[j]

(* SELECT DATE(started_at), COUNT of the rows ... WHERE ... AND DATE(started_at) >= ?1
   GROUP BY DATE(started_at) ORDER BY date ASC, mapped to HeatmapPoint *)
FocusHeatmap(s, start_date) ==
    LET dates == {Date(s[x].started_at) :
                    x \in {y \in DOMAIN s : /\ Counted(s[y])
                                             /\ Date(s[y].started_at) >= start_date}}
        q == Ascending(dates)
    IN [i \in DOMAIN q |-> HeatmapPoint(q[i], Cardinality(HeatmapGroup(s, q[i])))]

(* ORDER BY priority DESC, created_at DESC: whether row a may come before row b *)
TaskBefore(a, b) ==
    \/ a.priority > b.priority
    \/ a.priority = b.priority /\ a.created_at >= b.created_at

(* the orders in which SELECT ... FROM tasks ORDER BY priority DESC, created_at DESC
   may return the rows: rows equal on both keys come in either order *)
TaskListings(t) ==
    {q \in [1..Cardinality(DOMAIN t) -> DOMAIN t] :
        /\ \A i, j \in DOMAIN q : i # j => q[i] # q[j]
        /\ \A i, j \in DOMAIN q : i < j => TaskBefore(t[q[i]], t[q[j]])}

--------------------------------------------------------------------------
(* The schema and the statements of migrate_database *)

DB_VERSION == 2

TableNames == {"db_version", "tasks", "pomodoro_sessions", "daily_stats", "settings"}

(* the columns of CREATE TABLE tasks (id is the key of the table), and those the
   body of version 2 adds, with their DEFAULT *)
OriginalColumns == {"text", "completed", "created_at", "completed_at"}

AddedColumns ==
    <<[column |-> "priority", default |-> 0],
      [column |-> "estimated_pomodoros", default |-> 1],
      [column |-> "actual_pomodoros", default |-> 0]>>

TaskColumns == OriginalColumns \cup {AddedColumns[i].column : i \in DOMAIN AddedColumns}

(* a database file: its schema and the rows of its tables *)
Database(sch, t, s, d) == [schema |-> sch, tasks |-> t, sessions |-> s, daily_stats |-> d]

NoSchema == [tables |-> {}, task_columns |-> {}, versions |-> {}]

(* the schema initialize_database leaves in a new file *)
Migrated == [tables |-> TableNames, task_columns |-> TaskColumns, versions |-> {DB_VERSION}]

(* what a statement gives: whether it succeeded, and the database after it *)
Done(ok, db) == [ok |-> ok, db |-> db]

(* mutant of CreateTableIfNotExists: the table is dropped and created again *)
CreateTableIfNotExists_Recreate(db, name) ==
    Done(TRUE,
         [db EXCEPT !.schema.tables = @ \cup {name},
                    !.schema.task_columns = IF name = "tasks" THEN OriginalColumns ELSE @,
                    !.schema.versions = IF name = "db_version" THEN {} ELSE @,
                    !.tasks = IF name = "tasks" THEN EmptyTable ELSE @,
                    !.sessions = IF name = "pomodoro_sessions" THEN EmptyTable ELSE @,
                    !.daily_stats = IF name = "daily_stats" THEN EmptyTable ELSE @])

(* CREATE TABLE IF NOT EXISTS name (...): nothing when the table is there *)
CreateTableIfNotExists(db, name) ==
    Done(TRUE,
         IF name \in db.schema.tables
         THEN db
         ELSE [db EXCEPT !.schema.tables = @ \cup {name},
                         !.schema.task_columns =
                            IF name = "tasks" THEN OriginalColumns ELSE @])

(* mutant of AlterAddColumn: the table is built anew with the column, and its rows
   are not copied *)
AlterAddColumn_Rebuild(db, column, default) ==
    IF "tasks" \in db.schema.tables /\ column \notin db.schema.task_columns
    THEN Done(TRUE, [db EXCEPT !.schema.task_columns = @ \cup {column},
                               !.tasks = EmptyTable])
    ELSE Done(FALSE, db)

(* a row with one more column *)
Extend(row, column, value) ==
    [c \in DOMAIN row \cup {column} |-> IF c = column THEN value ELSE row[c]]

(* mutant of AlterAddColumn: the DEFAULT clause left out, the rows there are read
   NULL in the new column *)
AlterAddColumn_NoDefault(db, column, default) ==
    IF "tasks" \in db.schema.tables /\ column \notin db.schema.task_columns
    THEN Done(TRUE, [db EXCEPT !.schema.task_columns = @ \cup {column},
                               !.tasks = [t \in DOMAIN @ |-> Extend(@[t], column, NULL)]])
    ELSE Done(FALSE, db)

(* ALTER TABLE tasks ADD COLUMN column INTEGER DEFAULT default: an error when there
   is no table tasks or the column is there already; else the rows there are read
   the default in the new column *)
AlterAddColumn(db, column, default) ==
    IF "tasks" \in db.schema.tables /\ column \notin db.schema.task_columns
    THEN Done(TRUE, [db EXCEPT !.schema.task_columns = @ \cup {column},
                               !.tasks = [t \in DOMAIN @ |-> Extend(@[t], column, default)]])
    ELSE Done(FALSE, db)

(* INSERT OR REPLACE INTO db_version (version) VALUES (?1): version is the primary
   key, so the row replaced is the one of the same version, if any *)
RecordVersion(db, version) ==
    Done(TRUE, [db EXCEPT !.schema.versions = @ \cup {version}])

(* SELECT version FROM db_version ORDER BY version DESC LIMIT 1, .unwrap_or(0) *)
CurrentVersion(versions) ==
    IF versions = {} THEN 0 ELSE CHOOSE v \in versions : \A w \in versions : w <= v

(* the statements of the body of a version, in order *)
Create(name) == [op |-> "create", name |-> name, default |-> NULL]

Alter(added) == [op |-> "alter", name |-> added.column, default |-> added.default]

MigrationBody(version) ==
    IF version = 1 THEN <<Create("tasks")>>
    ELSE IF version = 2
    THEN [i \in DOMAIN AddedColumns |-> Alter(AddedColumns[i])]
         \o <<Create("pomodoro_sessions"), Create("daily_stats"), Create("settings")>>
    ELSE <<>>

(* for version in (current_version + 1)..=DB_VERSION: the statements of the loop *)
RECURSIVE MigrationBodies(_)
MigrationBodies(version) ==
    IF version > DB_VERSION THEN <<>>
    ELSE MigrationBody(version) \o MigrationBodies(version + 1)

(* mutant of Propagate: the error is dropped *)
Propagate_Dropped(ok) == TRUE

(* .map_err(...)?: the error of a statement ends the migration *)
Propagate(ok) == ok

(* mutant of Ignore: the error ends the migration *)
Ignore_Fatal(ok) == ok

(* .ok(): the error of a statement is dropped *)
Ignore(ok) == TRUE

--------------------------------------------------------------------------
(* Workers and responses *)

Idle == [pc |-> "idle", cmd |-> "none", id |-> NULL, completed |-> FALSE,
         interrupted |-> FALSE, session_type |-> "none", task_id |-> NULL,
         prev |-> "none", read |-> <<>>, conns |-> 0]

(* a command is handed to an idle worker; the workers are interchangeable, so the
   first idle one takes it *)
Dispatch(p) ==
    /\ ncmds < MaxCmds
    /\ procs[p].pc = "idle"
    /\ \A q \in Procs : q < p => procs[q].pc # "idle"

Quiescent == \A p \in Procs : procs[p].pc = "idle"

Response(cmd, id, ret, at, result) ==
    [cmd |-> cmd, id |-> id, ret |-> ret, at |-> at, result |-> result]

(* history: the state of the task a complete_task call addresses, before its UPDATE *)
PrevOf(task_id) ==
    IF task_id \notin DOMAIN tasks THEN "absent"
    ELSE IF tasks[task_id].completed THEN "done" ELSE "open"

(* history of a session: "none" until complete_pomodoro_session is called on it,
   "running" while its only call is in flight, then how that call ended:
   "qualifying" (returned Ok, on a work session, with was_completed and not
   was_interrupted), "plain" (returned Ok otherwise) or "aborted"; "multi" once a
   second call was made on it, "aborted" for good once a call on it was aborted;
   and the date on which a call last passed its last statement, the completion
   event the statistics count *)
NoHistory == [calls |-> "none", on |-> NULL]

HistCall(session_id) ==
    IF session_id \in DOMAIN hist
    THEN [hist EXCEPT ![session_id].calls =
            IF @ = "none" THEN "running" ELSE IF @ = "aborted" THEN @ ELSE "multi"]
    ELSE hist

HistEnd(session_id, how) ==
    IF session_id \in DOMAIN hist
    THEN [hist EXCEPT ![session_id].calls =
            IF @ = "running" \/ how = "aborted" THEN how ELSE @]
    ELSE hist

HistOutcome(row, was_completed, was_interrupted) ==
    IF row.session_type = "work" /\ was_completed /\ ~was_interrupted
    THEN "qualifying" ELSE "plain"

(* migrate_database at rest.  History: origin, the database file as the first run
   found it; before, as the last run found it; faults, whether a statement of the
   last run failed on the storage (not on the schema); failed, whether one of
   those was a statement whose error the code propagates; interrupted, whether a
   run was interrupted since the last one that returned Ok; resumed, whether the
   last run started on what an interrupted run left *)
NotMigrating(db) ==
    [pc |-> "idle", current_version |-> 0, todo |-> <<>>,
     origin |-> db, before |-> db, faults |-> FALSE, failed |-> FALSE,
     interrupted |-> FALSE, resumed |-> FALSE]

--------------------------------------------------------------------------
(* Initial state: a migrated, empty database *)

Init ==
    /\ tasks = EmptyTable
    /\ sessions = EmptyTable
    /\ daily_stats = EmptyTable
    /\ foreign_keys \in BOOLEAN
    /\ uuids = [task |-> 0, session |-> 0]
    /\ now = 0
    /\ procs = [p \in Procs |-> Idle]
    /\ response = Response("none", NULL, "ok", "end", NULL)
    /\ hist = EmptyTable
    /\ ncmds = 0
    /\ baseline = EmptyTable
    /\ schema = Migrated
    /\ migrator = NotMigrating(Database(Migrated, EmptyTable, EmptyTable, EmptyTable))

(* the clock advances *)
Tick ==
    /\ now < MaxNow
    /\ now' = now + 1
    /\ UNCHANGED <<tasks, sessions, daily_stats, foreign_keys, uuids, procs,
                   response, hist, ncmds, baseline,
                   schema, migrator>>

add_task(text) ==
    /\ \E p \in Procs : Dispatch(p)
    /\ LET id == uuids.task + 1 IN
        /\ tasks' = Put(tasks, id, Task(text, now))
        /\ uuids' = [uuids EXCEPT !.task = id]
        /\ response' = Response("add_task", id, "ok", "end", NULL)
    /\ ncmds' = ncmds + 1
    /\ UNCHANGED <<sessions, daily_stats, foreign_keys, now, procs, hist, baseline,
                   schema, migrator>>

(* complete_task, first statement: the UPDATE of the task row.  With completed =
   false the handler returns here. *)
complete_task_update(p, task_id, completed) ==
    /\ Dispatch(p)
    /\ tasks' = UpdateTaskCompleted(tasks, task_id, completed,
                                    IF completed THEN now ELSE NULL)
    /\ IF completed
       THEN /\ procs' = [procs EXCEPT ![p] =
                            [Idle EXCEPT !.pc = "ct_stats", !.cmd = "complete_task",
                                         !.id = task_id, !.completed = completed,
                                         !.prev = PrevOf(task_id)]]
            /\ UNCHANGED response
       ELSE /\ response' = Response("complete_task", task_id, "ok", "end", NULL)
            /\ UNCHANGED procs
    /\ ncmds' = ncmds + 1
    /\ UNCHANGED <<sessions, daily_stats, foreign_keys, uuids, now, hist, baseline,
                   schema, migrator>>

(* complete_task, second statement (if completed): the bump of today's row *)
complete_task_stats(p) ==
    /\ procs[p].pc = "ct_stats"
    /\ daily_stats' = ReplaceTasksCompleted(daily_stats, Date(now))
    /\ response' = Response("complete_task", procs[p].id, "ok", "end", NULL)
    /\ procs' = [procs EXCEPT ![p] = Idle]
    /\ UNCHANGED <<tasks, sessions, foreign_keys, uuids, now, hist, ncmds, baseline,
                   schema, migrator>>

update_task(task_id, text, priority, estimated_pomodoros) ==
    /\ \E p \in Procs : Dispatch(p)
    /\ tasks' = UpdateTaskFields(tasks, task_id, text, priority, estimated_pomodoros)
    /\ response' = Response("update_task", task_id, "ok", "end", NULL)
    /\ ncmds' = ncmds + 1
    /\ UNCHANGED <<sessions, daily_stats, foreign_keys, uuids, now, procs, hist,
                   baseline,
                   schema, migrator>>

(* DELETE FROM tasks WHERE id = ?1.  The handler returns (); the response keeps, as
   history, the sessions that referenced the task before the statement *)
delete_task(task_id) ==
    /\ \E p \in Procs : Dispatch(p)
    /\ tasks' = Remove(tasks, task_id)
    /\ sessions' = IF foreign_keys /\ task_id \in DOMAIN tasks
                   THEN OnDeleteSetNull(sessions, task_id)
                   ELSE sessions
    /\ response' = Response("delete_task", task_id, "ok", "end",
                            {s \in DOMAIN sessions : sessions[s].task_id = task_id})
    /\ ncmds' = ncmds + 1
    /\ UNCHANGED <<daily_stats, foreign_keys, uuids, now, procs, hist, baseline,
                   schema, migrator>>

(* mutant of SessionInsertAllowed: the table has no CHECK on session_type *)
SessionInsertAllowed_NoCheck(task_id, session_type) ==
    foreign_keys => (task_id = NULL \/ task_id \in DOMAIN tasks)

(* whether the INSERT of start_pomodoro_session passes the table's constraints *)
SessionInsertAllowed(task_id, session_type) ==
    /\ session_type \in SessionTypes
    /\ foreign_keys => (task_id = NULL \/ task_id \in DOMAIN tasks)

start_pomodoro_session(task_id, session_type, duration_minutes) ==
    /\ \E p \in Procs : Dispatch(p)
    /\ IF SessionInsertAllowed(task_id, session_type)
       THEN LET id == uuids.session + 1 IN
            /\ sessions' = Put(sessions, id,
                    PomodoroSession(task_id, session_type, duration_minutes, now))
            /\ hist' = Put(hist, id, NoHistory)
            /\ uuids' = [uuids EXCEPT !.session = id]
            /\ response' = Response("start_pomodoro_session", id, "ok", "end", NULL)
       ELSE /\ response' = Response("start_pomodoro_session", NULL, "err", "end", NULL)
            /\ UNCHANGED <<sessions, hist, uuids>>
    /\ ncmds' = ncmds + 1
    /\ UNCHANGED <<tasks, daily_stats, foreign_keys, now, procs, baseline,
                   schema, migrator>>

(* complete_pomodoro_session, first statement: the UPDATE of the session row *)
complete_pomodoro_session_update(p, session_id, was_completed, was_interrupted) ==
    /\ Dispatch(p)
    /\ sessions' = UpdateSessionCompleted(sessions, session_id,
                        IF was_completed THEN now ELSE NULL, was_interrupted)
    /\ procs' = [procs EXCEPT ![p] =
                    [Idle EXCEPT !.pc = "cps_select",
                                 !.cmd = "complete_pomodoro_session",
                                 !.id = session_id, !.completed = was_completed,
                                 !.interrupted = was_interrupted]]
    /\ hist' = HistCall(session_id)
    /\ ncmds' = ncmds + 1
    /\ UNCHANGED <<tasks, daily_stats, foreign_keys, uuids, now, response, baseline,
                   schema, migrator>>

(* mutant of Qualifies: the test of was_interrupted left out *)
Qualifies_IgnoringInterrupted(session_type, was_completed, was_interrupted) ==
    session_type = "work" /\ was_completed

(* mutant of Qualifies: the test of session_type left out *)
Qualifies_AnyType(session_type, was_completed, was_interrupted) ==
    was_completed /\ ~was_interrupted

(* the condition under which the handler counts the session *)
Qualifies(session_type, was_completed, was_interrupted) ==
    session_type = "work" /\ was_completed /\ ~was_interrupted

(* second statement: SELECT session_type, task_id; no row is an error.  The handler
   returns here unless the session qualifies. *)
complete_pomodoro_session_select(p) ==
    /\ procs[p].pc = "cps_select"
    /\ LET id == procs[p].id IN
       IF id \notin DOMAIN sessions
       THEN /\ response' = Response("complete_pomodoro_session", id, "err", "end", NULL)
            /\ procs' = [procs EXCEPT ![p] = Idle]
            /\ hist' = HistEnd(id, "err")
       ELSE IF Qualifies(sessions[id].session_type, procs[p].completed,
                         procs[p].interrupted)
       THEN /\ procs' = [procs EXCEPT
                    ![p].pc = IF sessions[id].task_id # NULL THEN "cps_task"
                                                            ELSE "cps_stats",
                    ![p].session_type = sessions[id].session_type,
                    ![p].task_id = sessions[id].task_id]
            /\ UNCHANGED <<response, hist>>
       ELSE /\ response' = Response("complete_pomodoro_session", id, "ok", "end", NULL)
            /\ procs' = [procs EXCEPT ![p] = Idle]
            /\ hist' = HistEnd(id, HistOutcome(sessions[id], procs[p].completed,
                                                procs[p].interrupted))
    /\ UNCHANGED <<tasks, sessions, daily_stats, foreign_keys, uuids, now, ncmds,
                   baseline,
                   schema, migrator>>

(* third statement, if the session has a task: the task's counter *)
complete_pomodoro_session_task(p) ==
    /\ procs[p].pc = "cps_task"
    /\ tasks' = IncrementActualPomodoros(tasks, procs[p].task_id)
    /\ procs' = [procs EXCEPT ![p].pc = "cps_stats"]
    /\ UNCHANGED <<sessions, daily_stats, foreign_keys, uuids, now, response, hist,
                   ncmds, baseline,
                   schema, migrator>>

(* last statement: the upsert of today's row *)
complete_pomodoro_session_stats(p) ==
    /\ procs[p].pc = "cps_stats"
    /\ daily_stats' = UpsertWorkSession(daily_stats, Date(now), WorkMinutes)
    /\ response' = Response("complete_pomodoro_session", procs[p].id, "ok", "end", NULL)
    /\ procs' = [procs EXCEPT ![p] = Idle]
    /\ hist' = [HistEnd(procs[p].id,
                         HistOutcome(sessions[procs[p].id], procs[p].completed,
                                     procs[p].interrupted))
                    EXCEPT ![procs[p].id].on = Date(now)]
    /\ UNCHANGED <<tasks, sessions, foreign_keys, uuids, now, ncmds, baseline,
                   schema, migrator>>

(* a statement of a handler in flight fails, or the process dies there: the handler
   ends before the statement at its position; what it committed stays *)
Abort(p) ==
    /\ procs[p].pc # "idle"
    /\ response' = Response(procs[p].cmd, procs[p].id, "aborted", procs[p].pc,
                            procs[p])
    /\ procs' = [procs EXCEPT ![p] = Idle]
    /\ hist' = IF procs[p].cmd = "complete_pomodoro_session"
               THEN HistEnd(procs[p].id, "aborted") ELSE hist
    /\ UNCHANGED <<tasks, sessions, daily_stats, foreign_keys, uuids, now, ncmds,
                   baseline,
                   schema, migrator>>

get_tasks ==
    /\ \E p \in Procs : Dispatch(p)
    /\ \E q \in TaskListings(tasks) :
        response' = Response("get_tasks", NULL, "ok", "end",
                             [i \in DOMAIN q |-> [id |-> q[i], row |-> tasks[q[i]]]])
    /\ ncmds' = ncmds + 1
    /\ UNCHANGED <<tasks, sessions, daily_stats, foreign_keys, uuids, now, procs,
                   hist, baseline,
                   schema, migrator>>

get_daily_stats_by_date(date) ==
    /\ \E p \in Procs : Dispatch(p)
    /\ response' = Response("get_daily_stats_by_date", NULL, "ok", "end",
                            StatsByDate(daily_stats, date))
    /\ ncmds' = ncmds + 1
    /\ UNCHANGED <<tasks, sessions, daily_stats, foreign_keys, uuids, now, procs,
                   hist, baseline,
                   schema, migrator>>

--------------------------------------------------------------------------
(* migrate_database, run by initialize_database at every start of the application,
   one statement at a time.  A statement may fail on the storage (fault): then it
   changes nothing and gives an error. *)

CurrentDatabase == Database(schema, tasks, sessions, daily_stats)

Store(db) ==
    /\ schema' = db.schema
    /\ tasks' = db.tasks
    /\ sessions' = db.sessions
    /\ daily_stats' = db.daily_stats

Execute(fault, result) == IF fault THEN Done(FALSE, CurrentDatabase) ELSE result

(* the run ends; fatal: whether a statement whose error is propagated has just
   failed on the storage *)
MigrateReturn(ret, at, fatal) ==
    /\ response' = Response("migrate_database", NULL, ret, at, NULL)
    /\ migrator' = [migrator EXCEPT !.pc = "idle", !.todo = <<>>,
                                     !.faults = @ \/ fatal, !.failed = @ \/ fatal,
                                     !.interrupted = (ret = "aborted" \/ (ret = "err" /\ @))]

(* the run goes on with the statements left; the version is recorded after them *)
MigrateContinue(todo, fatal) ==
    /\ migrator' = [migrator EXCEPT !.pc = IF todo = <<>> THEN "record" ELSE "bodies",
                                     !.todo = todo,
                                     !.faults = @ \/ fatal, !.failed = @ \/ fatal]
    /\ UNCHANGED response

(* CREATE TABLE IF NOT EXISTS db_version *)
migrate_database(fault) ==
    /\ ncmds < MaxCmds
    /\ migrator.pc = "idle"
    /\ \A p \in Procs : procs[p].pc = "idle"
    /\ LET r == Execute(fault, CreateTableIfNotExists(CurrentDatabase, "db_version")) IN
        /\ Store(r.db)
        /\ IF Propagate(r.ok)
           THEN /\ migrator' = [migrator EXCEPT !.pc = "select",
                                                !.before = CurrentDatabase,
                                                !.faults = fault, !.failed = fault,
                                                !.resumed = migrator.interrupted]
                /\ UNCHANGED response
           ELSE /\ response' = Response("migrate_database", NULL, "err", "db_version",
                                        NULL)
                /\ migrator' = [migrator EXCEPT !.before = CurrentDatabase,
                                                !.faults = fault, !.failed = fault,
                                                !.resumed = migrator.interrupted]
    /\ ncmds' = ncmds + 1
    /\ UNCHANGED <<foreign_keys, uuids, now, procs, hist, baseline>>

(* the SELECT of the recorded version, and the test current_version < DB_VERSION *)
migrate_current_version(fault) ==
    /\ migrator.pc = "select"
    /\ LET current_version == IF fault THEN 0 ELSE CurrentVersion(schema.versions) IN
        IF current_version < DB_VERSION
        THEN /\ migrator' = [migrator EXCEPT
                    !.pc = "bodies",
                    !.current_version = current_version,
                    !.todo = MigrationBodies(current_version + 1),
                    !.faults = @ \/ fault]
             /\ UNCHANGED response
        ELSE /\ response' = Response("migrate_database", NULL, "ok", "end", NULL)
             /\ migrator' = [migrator EXCEPT !.pc = "idle",
                                              !.current_version = current_version,
                                              !.interrupted = FALSE]
    /\ UNCHANGED <<tasks, sessions, daily_stats, foreign_keys, uuids, now, procs, hist,
                   ncmds, baseline, schema>>

(* a CREATE TABLE IF NOT EXISTS of a body *)
migrate_create(fault) ==
    /\ migrator.pc = "bodies"
    /\ Head(migrator.todo).op = "create"
    /\ LET r == Execute(fault, CreateTableIfNotExists(CurrentDatabase,
                                                     Head(migrator.todo).name)) IN
        /\ Store(r.db)
        /\ IF Propagate(r.ok)
           THEN MigrateContinue(Tail(migrator.todo), fault)
           ELSE MigrateReturn("err", Head(migrator.todo).name, fault)
    /\ UNCHANGED <<foreign_keys, uuids, now, procs, hist, ncmds, baseline>>

(* an ALTER TABLE tasks ADD COLUMN of the body of version 2 *)
migrate_alter(fault) ==
    /\ migrator.pc = "bodies"
    /\ Head(migrator.todo).op = "alter"
    /\ LET r == Execute(fault, AlterAddColumn(CurrentDatabase, Head(migrator.todo).name,
                                             Head(migrator.todo).default)) IN
        /\ Store(r.db)
        /\ IF Ignore(r.ok)
           THEN /\ migrator' = [migrator EXCEPT !.todo = Tail(@), !.faults = @ \/ fault]
                /\ UNCHANGED response
           ELSE MigrateReturn("err", Head(migrator.todo).name, FALSE)
    /\ UNCHANGED <<foreign_keys, uuids, now, procs, hist, ncmds, baseline>>

(* after the loop: INSERT OR REPLACE INTO db_version (version) VALUES (DB_VERSION) *)
migrate_record_version(fault) ==
    /\ migrator.pc = "record"
    /\ LET r == Execute(fault, RecordVersion(CurrentDatabase, DB_VERSION)) IN
        /\ Store(r.db)
        /\ IF Propagate(r.ok)
           THEN MigrateReturn("ok", "end", fault)
           ELSE MigrateReturn("err", "record", fault)
    /\ UNCHANGED <<foreign_keys, uuids, now, procs, hist, ncmds, baseline>>

(* the application is killed while it migrates: what the run committed stays *)
Interrupt ==
    /\ migrator.pc # "idle"
    /\ MigrateReturn("aborted", migrator.pc, FALSE)
    /\ UNCHANGED <<tasks, sessions, daily_stats, foreign_keys, uuids, now, procs, hist,
                   ncmds, baseline, schema>>

get_focus_heatmap(days) ==
    /\ \E p \in Procs : Dispatch(p)
    /\ response' = Response("get_focus_heatmap", days, "ok", "end",
                            FocusHeatmap(sessions, StartDate(days, now)))
    /\ ncmds' = ncmds + 1
    /\ UNCHANGED <<tasks, sessions, daily_stats, foreign_keys, uuids, now, procs,
                   hist, baseline, schema, migrator>>

(* the days a caller asks for: none, today only, and a u32 beyond what chrono can
   subtract *)
DaysInputs == {NULL, 0, 2147483647}

(* the ids a caller passes: those of the rows there are and one of no row; for the
   task of a new session, an id add_task once returned (its task may have been
   deleted since) or none *)
TaskIdInputs == DOMAIN tasks \cup {BogusId}

SessionIdInputs == DOMAIN sessions \cup {BogusId}

LinkInputs == (1..uuids.task) \cup {NULL}

Next ==
    \/ Tick
    \/ \E text \in Texts : add_task(text)
    \/ \E p \in Procs, task_id \in TaskIdInputs, completed \in BOOLEAN :
            complete_task_update(p, task_id, completed)
    \/ \E p \in Procs : complete_task_stats(p)
    \/ \E task_id \in DOMAIN tasks, u \in UpdateInputs :
            update_task(task_id, u[1], u[2], u[3])
    \/ \E task_id \in DOMAIN tasks : delete_task(task_id)
    \/ \E task_id \in LinkInputs, i \in StartInputs :
            start_pomodoro_session(task_id, i[1], i[2])
    \/ \E p \in Procs, session_id \in SessionIdInputs,
          was_completed \in BOOLEAN, was_interrupted \in BOOLEAN :
            complete_pomodoro_session_update(p, session_id, was_completed,
                                             was_interrupted)
    \/ \E p \in Procs : complete_pomodoro_session_select(p)
    \/ \E p \in Procs : complete_pomodoro_session_task(p)
    \/ \E p \in Procs : complete_pomodoro_session_stats(p)
    \/ \E p \in Procs : Abort(p)
    \/ get_tasks
    \/ \E date \in Dates : get_daily_stats_by_date(date)
    \/ \E days \in DaysInputs : get_focus_heatmap(days)

Spec == Init /\ [][Next]_vars

--------------------------------------------------------------------------
(* The starts of the application: migrate_database runs, again and again, on a
   database file that is new, or was left by a release of version 1, or is of
   version 2 already; a run may be interrupted, and a statement may fail *)

(* a row of the tasks table of version 1 *)
OldTask(text, completed, ts) ==
    [text |-> text, completed |-> completed, created_at |-> ts,
     completed_at |-> IF completed THEN ts ELSE NULL]

OldTables ==
    {EmptyTable,
     Put(EmptyTable, 1, OldTask("a", FALSE, 0)),
     Put(Put(EmptyTable, 1, OldTask("a", FALSE, 0)), 2, OldTask("b", TRUE, 1))}

NewTable ==
    Put(EmptyTable, 1, [Task("a", 0) EXCEPT !.priority = 2, !.estimated_pomodoros = 3,
                                            !.actual_pomodoros = 1])

DatabaseFiles ==
    {Database(NoSchema, EmptyTable, EmptyTable, EmptyTable)}
    \cup {Database([tables |-> {"db_version", "tasks"},
                    task_columns |-> OriginalColumns, versions |-> {1}],
                   t, EmptyTable, EmptyTable) : t \in OldTables}
    \cup {Database([Migrated EXCEPT !.versions = v], NewTable,
                   Put(EmptyTable, 1, PomodoroSession(1, "work", 25, 0)),
                   Put(EmptyTable, Date(0), DailyStats(1, WorkMinutes, 0))) :
            v \in {{DB_VERSION}, {1, DB_VERSION}}}

InitMigrate ==
    /\ \E db \in DatabaseFiles :
        /\ schema = db.schema
        /\ tasks = db.tasks
        /\ sessions = db.sessions
        /\ daily_stats = db.daily_stats
        /\ migrator = NotMigrating(db)
    /\ foreign_keys \in BOOLEAN
    /\ uuids = [task |-> Cardinality(DOMAIN tasks), session |-> Cardinality(DOMAIN sessions)]
    /\ now = MaxNow
    /\ procs = [p \in Procs |-> Idle]
    /\ response = Response("none", NULL, "ok", "end", NULL)
    /\ hist = [s \in DOMAIN sessions |-> NoHistory]
    /\ ncmds = 0
    /\ baseline = daily_stats

NextMigrate ==
    \/ \E fault \in BOOLEAN : migrate_database(fault)
    \/ \E fault \in BOOLEAN : migrate_current_version(fault)
    \/ \E fault \in BOOLEAN : migrate_create(fault)
    \/ \E fault \in BOOLEAN : migrate_alter(fault)
    \/ \E fault \in BOOLEAN : migrate_record_version(fault)
    \/ Interrupt

SpecMigrate == InitMigrate /\ [][NextMigrate]_vars

(* the same program with a front end that awaits the result of a command before it
   invokes the next: no two handlers are in flight together *)
NextSerial ==
    /\ Next
    /\ ncmds' # ncmds => Quiescent

SpecSerial == Init /\ [][NextSerial]_vars

(* the same program on a storage layer that enforces the FOREIGN KEY clause of
   pomodoro_sessions *)
InitEnforced ==
    /\ Init
    /\ foreign_keys

SpecEnforced == InitEnforced /\ [][Next]_vars

--------------------------------------------------------------------------
(* A batch of concurrent completions: the database holds one task and one started
   work session per worker, on today's date; every worker completes a session of
   its own with was_completed = true and was_interrupted = false *)

InitConc ==
    /\ tasks = Put(EmptyTable, 1, Task("a", 0))
    /\ sessions \in [Procs -> {PomodoroSession(task_id, "work", d, 0) :
                                task_id \in {NULL, 1}, d \in Durations}]
    /\ daily_stats \in {EmptyTable, Put(EmptyTable, Date(0), DailyStats(1, WorkMinutes, 1))}
    /\ foreign_keys \in BOOLEAN
    /\ uuids = [task |-> 1, session |-> NProcs]
    /\ now = 0
    /\ procs = [p \in Procs |-> Idle]
    /\ response = Response("none", NULL, "ok", "end", NULL)
    /\ hist = [s \in Procs |-> NoHistory]
    /\ ncmds = 0
    /\ baseline = daily_stats
    /\ schema = Migrated
    /\ migrator = NotMigrating(Database(Migrated, tasks, sessions, daily_stats))

ConcCall(p) ==
    \E session_id \in DOMAIN sessions :
        /\ hist[session_id].calls = "none"
        /\ complete_pomodoro_session_update(p, session_id, TRUE, FALSE)

NextConc ==
    \/ \E p \in Procs : ConcCall(p)
    \/ \E p \in Procs : complete_pomodoro_session_select(p)
    \/ \E p \in Procs : complete_pomodoro_session_task(p)
    \/ \E p \in Procs : complete_pomodoro_session_stats(p)

SpecConc == InitConc /\ [][NextConc]_vars

--------------------------------------------------------------------------
(* The sessions of a task, each completed once: the database holds one task and
   its started work sessions (the last one may be a session of no task), no
   statistics yet; every session is completed by at most one call, with any
   was_completed and was_interrupted, among commands on the task that do not
   delete it, and failures between statements *)

InitTask ==
    /\ InitConc
    /\ daily_stats = EmptyTable
    /\ \A s \in DOMAIN sessions :
        /\ sessions[s].duration_minutes = 50
        /\ s < NProcs => sessions[s].task_id = 1

OnceCall(p) ==
    \E session_id \in DOMAIN sessions, was_completed \in BOOLEAN,
       was_interrupted \in BOOLEAN :
        /\ hist[session_id].calls = "none"
        /\ complete_pomodoro_session_update(p, session_id, was_completed,
                                            was_interrupted)

NextTask ==
    \/ \E p \in Procs : OnceCall(p)
    \/ \E p \in Procs : complete_pomodoro_session_select(p)
    \/ \E p \in Procs : complete_pomodoro_session_task(p)
    \/ \E p \in Procs : complete_pomodoro_session_stats(p)
    \/ \E p \in Procs, task_id \in DOMAIN tasks, completed \in BOOLEAN :
            complete_task_update(p, task_id, completed)
    \/ \E p \in Procs : complete_task_stats(p)
    \/ \E task_id \in DOMAIN tasks, u \in UpdateInputs :
            update_task(task_id, u[1], u[2], u[3])
    \/ \E p \in Procs : Abort(p)

SpecTask == InitTask /\ [][NextTask]_vars

--------------------------------------------------------------------------
(* Qualifying completions of sessions whose task is deleted: the database of
   InitTask, its task deleted before, between or after the completions, on a
   storage that enforces the foreign key or not *)

NextUnlinked ==
    \/ \E task_id \in DOMAIN tasks : delete_task(task_id)
    \/ \E p \in Procs : ConcCall(p)
    \/ \E p \in Procs : complete_pomodoro_session_select(p)
    \/ \E p \in Procs : complete_pomodoro_session_task(p)
    \/ \E p \in Procs : complete_pomodoro_session_stats(p)

SpecUnlinked == InitTask /\ [][NextUnlinked]_vars

--------------------------------------------------------------------------
(* Completions called again: on the database of InitTask, any number of
   complete_pomodoro_session calls on each session, with any was_completed and
   was_interrupted *)

NextRepeat ==
    \/ \E p \in Procs, session_id \in DOMAIN sessions,
          was_completed \in BOOLEAN, was_interrupted \in BOOLEAN :
            complete_pomodoro_session_update(p, session_id, was_completed,
                                             was_interrupted)
    \/ \E p \in Procs : complete_pomodoro_session_select(p)
    \/ \E p \in Procs : complete_pomodoro_session_task(p)
    \/ \E p \in Procs : complete_pomodoro_session_stats(p)

SpecRepeat == InitTask /\ [][NextRepeat]_vars

--------------------------------------------------------------------------
(* export_data: three SELECTs on one connection, with no transaction around them,
   so the statements of other handlers may commit between them *)

(* the column of ORDER BY created_at DESC, of ORDER BY started_at DESC and of
   ORDER BY date DESC, for each row of the table *)
CreatedAt(t) == [k \in DOMAIN t |-> t[k].created_at]

StartedAt(t) == [k \in DOMAIN t |-> t[k].started_at]

DateOf(t) == [k \in DOMAIN t |-> k]

(* the orders in which a SELECT with ORDER BY column DESC may return the rows of a
   table: rows equal on the column come in either order *)
Listings(t, column) ==
    {q \in [1..Cardinality(DOMAIN t) -> DOMAIN t] :
        /\ \A i, j \in DOMAIN q : i # j => q[i] # q[j]
        /\ \A i, j \in DOMAIN q : i < j => column[q[i]] >= column[q[j]]}

(* the rows pushed to the Vec, in the order of the listing *)
Rows(t, q) == [i \in DOMAIN q |-> [id |-> q[i], row |-> t[q[i]]]]

(* SELECT * FROM tasks ORDER BY created_at DESC *)
export_data_tasks(p) ==
    /\ Dispatch(p)
    /\ \E q \in Listings(tasks, CreatedAt(tasks)) :
        procs' = [procs EXCEPT ![p] =
                    [Idle EXCEPT !.pc = "export_sessions", !.cmd = "export_data",
                                 !.read = <<Rows(tasks, q)>>]]
    /\ ncmds' = ncmds + 1
    /\ UNCHANGED <<tasks, sessions, daily_stats, foreign_keys, uuids, now, response,
                   hist, baseline, schema, migrator>>

(* SELECT * FROM pomodoro_sessions ORDER BY started_at DESC *)
export_data_sessions(p) ==
    /\ procs[p].pc = "export_sessions"
    /\ \E q \in Listings(sessions, StartedAt(sessions)) :
        procs' = [procs EXCEPT ![p].pc = "export_stats",
                               ![p].read = Append(@, Rows(sessions, q))]
    /\ UNCHANGED <<tasks, sessions, daily_stats, foreign_keys, uuids, now, response,
                   hist, ncmds, baseline, schema, migrator>>

(* SELECT * FROM daily_stats ORDER BY date DESC, and the json! of the result *)
export_data_stats(p) ==
    /\ procs[p].pc = "export_stats"
    /\ \E q \in Listings(daily_stats, DateOf(daily_stats)) :
        response' = Response("export_data", NULL, "ok", "end",
                             [tasks |-> procs[p].read[1],
                              pomodoro_sessions |-> procs[p].read[2],
                              daily_stats |-> Rows(daily_stats, q),
                              exported_at |-> now])
    /\ procs' = [procs EXCEPT ![p] = Idle]
    /\ UNCHANGED <<tasks, sessions, daily_stats, foreign_keys, uuids, now, hist,
                   ncmds, baseline, schema, migrator>>

(* an export among the commands that add and remove rows: the database holds one
   task, as add_task or as update_task left it *)
InitExport ==
    /\ tasks \in {Put(EmptyTable, 1, Task("a", 0)),
                  UpdateTaskFields(Put(EmptyTable, 1, Task("a", 0)), 1, "b", 1, 2)}
    /\ sessions = EmptyTable
    /\ daily_stats = EmptyTable
    /\ foreign_keys \in BOOLEAN
    /\ uuids = [task |-> 1, session |-> 0]
    /\ now = 0
    /\ procs = [p \in Procs |-> Idle]
    /\ response = Response("none", NULL, "ok", "end", NULL)
    /\ hist = EmptyTable
    /\ ncmds = 0
    /\ baseline = EmptyTable
    /\ schema = Migrated
    /\ migrator = NotMigrating(Database(Migrated, tasks, sessions, daily_stats))

NextExport ==
    \/ Tick
    \/ \E text \in Texts : add_task(text)
    \/ \E p \in Procs, task_id \in DOMAIN tasks :
            complete_task_update(p, task_id, TRUE)
    \/ \E p \in Procs : complete_task_stats(p)
    \/ \E task_id \in DOMAIN tasks : delete_task(task_id)
    \/ \E task_id \in LinkInputs : start_pomodoro_session(task_id, "work", 25)
    \/ \E p \in Procs : export_data_tasks(p)
    \/ \E p \in Procs : export_data_sessions(p)
    \/ \E p \in Procs : export_data_stats(p)

SpecExport == InitExport /\ [][NextExport]_vars

--------------------------------------------------------------------------
(* get_task_with_stats: the SELECT of the task, then the SELECT of its sessions and
   the loop that adds up total_time_spent *)

(* WHERE task_id = ?1 *)
SessionsOf(s, task_id) ==
    [k \in {x \in DOMAIN s : s[x].task_id = task_id} |-> s[k]]

(* the test of the loop: session_type == "work" && !interrupted *)
AddsTime(row) == row.session_type = "work" /\ ~row.interrupted

RECURSIVE TotalTimeSpent(_)
TotalTimeSpent(rows) ==
    IF rows = <<>> THEN 0
    ELSE (IF AddsTime(Head(rows).row) THEN Head(rows).row.duration_minutes ELSE 0)
         + TotalTimeSpent(Tail(rows))

(* SELECT ... FROM tasks WHERE id = ?1: no row is an error *)
get_task_with_stats_task(p, task_id) ==
    /\ Dispatch(p)
    /\ IF task_id \in DOMAIN tasks
       THEN /\ procs' = [procs EXCEPT ![p] =
                    [Idle EXCEPT !.pc = "gtws_sessions",
                                 !.cmd = "get_task_with_stats", !.id = task_id,
                                 !.read = <<tasks[task_id]>>]]
            /\ UNCHANGED response
       ELSE /\ response' = Response("get_task_with_stats", task_id, "err", "end",
                                    NULL)
            /\ UNCHANGED procs
    /\ ncmds' = ncmds + 1
    /\ UNCHANGED <<tasks, sessions, daily_stats, foreign_keys, uuids, now, hist,
                   baseline, schema, migrator>>

(* SELECT ... FROM pomodoro_sessions WHERE task_id = ?1 ORDER BY started_at DESC *)
get_task_with_stats_sessions(p) ==
    /\ procs[p].pc = "gtws_sessions"
    /\ LET linked == SessionsOf(sessions, procs[p].id) IN
       \E q \in Listings(linked, StartedAt(linked)) :
        response' = Response("get_task_with_stats", procs[p].id, "ok", "end",
                             [task |-> procs[p].read[1],
                              pomodoro_sessions |-> Rows(linked, q),
                              total_time_spent |-> TotalTimeSpent(Rows(linked, q))])
    /\ procs' = [procs EXCEPT ![p] = Idle]
    /\ UNCHANGED <<tasks, sessions, daily_stats, foreign_keys, uuids, now, hist,
                   ncmds, baseline, schema, migrator>>

(* the commands of Next with get_task_with_stats among them *)
NextReports ==
    \/ Next
    \/ \E p \in Procs, task_id \in TaskIdInputs : get_task_with_stats_task(p, task_id)
    \/ \E p \in Procs : get_task_with_stats_sessions(p)

SpecReports == Init /\ [][NextReports]_vars

--------------------------------------------------------------------------
(* The connection pool.  Every handler begins with pool.get(), which waits for an
   idle connection and gives an error when none comes in time; the connection goes
   back to the pool when the handler returns, on every path.  The sections above
   take up a handler where it holds its connection; here a handler is its
   acquisition, its statements as one step, and its return. *)

Commands ==
    {"add_task", "get_tasks", "complete_task", "update_task", "delete_task",
     "start_pomodoro_session", "complete_pomodoro_session", "get_task_with_stats",
     "get_daily_stats", "get_daily_stats_by_date", "get_focus_heatmap", "export_data"}

(* mutant of Acquisitions: complete_pomodoro_session takes a second connection
   while it holds the first *)
Acquisitions_Twice(cmd) == IF cmd = "complete_pomodoro_session" THEN 2 ELSE 1

(* the pool.get() calls of a handler *)
Acquisitions(cmd) == 1

(* the connections of the pool: fewer than the workers, so that handlers do wait *)
PoolSize == NProcs - 1

RECURSIVE CheckedOutBy(_)
CheckedOutBy(S) ==
    IF S = {} THEN 0
    ELSE LET p == CHOOSE x \in S : TRUE
         IN procs[p].conns + CheckedOutBy(S \ {p})

(* the connections out of the pool *)
CheckedOut == CheckedOutBy(Procs)

(* a handler is called and reaches its pool.get() *)
handler_call(p, cmd) ==
    /\ Dispatch(p)
    /\ procs' = [procs EXCEPT ![p] = [Idle EXCEPT !.pc = "pool_get", !.cmd = cmd]]
    /\ ncmds' = ncmds + 1
    /\ UNCHANGED <<tasks, sessions, daily_stats, foreign_keys, uuids, now, response,
                   hist, baseline, schema, migrator>>

(* pool.get() returns a connection *)
pool_get(p) ==
    /\ procs[p].pc = "pool_get"
    /\ CheckedOut < PoolSize
    /\ procs' = [procs EXCEPT
            ![p].conns = @ + 1,
            ![p].pc = IF procs[p].conns + 1 = Acquisitions(procs[p].cmd)
                      THEN "statements" ELSE "pool_get"]
    /\ UNCHANGED <<tasks, sessions, daily_stats, foreign_keys, uuids, now, response,
                   hist, ncmds, baseline, schema, migrator>>

(* pool.get() gives up: the handler returns "Failed to get connection" *)
pool_get_timeout(p) ==
    /\ procs[p].pc = "pool_get"
    /\ CheckedOut = PoolSize
    /\ response' = Response("handler", NULL, "err", "pool_get", NULL)
    /\ procs' = [procs EXCEPT ![p] = Idle]
    /\ UNCHANGED <<tasks, sessions, daily_stats, foreign_keys, uuids, now, hist,
                   ncmds, baseline, schema, migrator>>

(* mutant of Dropped: the connection is kept when a statement's error ends the
   handler *)
Dropped_NotOnErr(held, ret) == IF ret = "err" THEN held ELSE 0

(* the connections a handler holds after it returns: conn is a local of the
   handler, dropped at every return, the early returns of ? included *)
Dropped(held, ret) == 0

(* the handler runs its statements and returns, Ok or Err *)
handler_return(p, ret) ==
    /\ procs[p].pc = "statements"
    /\ response' = Response("handler", NULL, ret, "end", NULL)
    /\ procs' = [procs EXCEPT ![p] =
                    [Idle EXCEPT !.conns = Dropped(procs[p].conns, ret)]]
    /\ UNCHANGED <<tasks, sessions, daily_stats, foreign_keys, uuids, now, hist,
                   ncmds, baseline, schema, migrator>>

NextPool ==
    \/ \E p \in Procs, cmd \in Commands : handler_call(p, cmd)
    \/ \E p \in Procs : pool_get(p)
    \/ \E p \in Procs : pool_get_timeout(p)
    \/ \E p \in Procs, ret \in {"ok", "err"} : handler_return(p, ret)

SpecPool == Init /\ [][NextPool]_vars

(* a handler that holds its connection goes on to its return: its statements are
   bounded by the storage, and the runtime runs every handler it was handed *)
SpecPoolFair ==
    SpecPool /\ \A p \in Procs : WF_vars(\E ret \in {"ok", "err"} : handler_return(p, ret))

(* The row mapping of get_focus_heatmap on rows of any count: the SELECT hands the
   closure one row after another, and the response keeps the point of the row
   before with the point of the row *)
MaxCount == 12

Counts == 0..MaxCount

heatmap_row(count) ==
    /\ response' = Response("heatmap_row", NULL, "ok", "end",
                            <<IF response.cmd = "heatmap_row"
                              THEN response.result[2]
                              ELSE HeatmapPoint(Date(now), count),
                              HeatmapPoint(Date(now), count)>>)
    /\ UNCHANGED <<tasks, sessions, daily_stats, foreign_keys, uuids, now, procs,
                   hist, ncmds, baseline, schema, migrator>>

NextLevel == \E count \in Counts : heatmap_row(count)

SpecLevel == Init /\ [][NextLevel]_vars

--------------------------------------------------------------------------
(* Properties *)

(* the effects a complete_pomodoro_session call that ended in frame f (the worker's
   record when it ended) has committed, by the statements it has passed *)
CommittedEffects(f) ==
    (IF f.id \in DOMAIN sessions THEN {"session"} ELSE {})
    \cup (IF f.pc = "cps_stats" /\ f.task_id \in DOMAIN tasks THEN {"task"} ELSE {})

(* the effects the call owes: the session row, the counter of the task the session
   has, today's row *)
OwedEffects(f) ==
    {"session", "stats"}
    \cup (IF sessions[f.id].task_id \in DOMAIN tasks THEN {"task"} ELSE {})

(* C1: a complete_pomodoro_session call on a work session, with was_completed and
   not was_interrupted, that fails or dies after one of its statements and before
   the last has committed all of its effects or none of them *)
C1_CompletionIsAtomic ==
    (/\ response.ret = "aborted"
     /\ response.cmd = "complete_pomodoro_session"
     /\ response.id \in DOMAIN sessions
     /\ sessions[response.id].session_type = "work"
     /\ response.result.completed /\ ~response.result.interrupted)
    => CommittedEffects(response.result) \in {{}, OwedEffects(response.result)}

ReaderStep ==
    /\ ncmds' = ncmds + 1
    /\ response'.cmd \in {"get_tasks", "get_daily_stats_by_date"}

(* a completion has committed the task's counter and not yet today's row *)
TornCompletion ==
    \E w \in Procs : procs[w].pc = "cps_stats" /\ procs[w].task_id \in DOMAIN tasks

(* a complete_task has committed the task's flag and not yet today's row *)
TornTaskCompletion ==
    \E w \in Procs : procs[w].pc = "ct_stats" /\ procs[w].id \in DOMAIN tasks

(* C2: no reader command reads the tables while a completion has committed the
   counter of its task and not yet the bump of today's row, or a complete_task has
   committed the completed flag and not yet the tasks_completed bump *)
C2_ReadersSeeWholeCommands ==
    [][ReaderStep => ~(TornCompletion \/ TornTaskCompletion)]_vars

(* C3: at every point of a batch of concurrent qualifying completions of distinct
   sessions on one date, pomodoros_completed of that date is what it was before the
   batch plus the number of calls that have returned; when all N have returned it
   is N more *)
C3_NoLostUpdate ==
    StatsByDate(daily_stats, Date(now)).pomodoros_completed
        = StatsByDate(baseline, Date(now)).pomodoros_completed
          + Cardinality({s \in DOMAIN sessions : hist[s].calls = "qualifying"})

C3_Witness ==
    /\ \A s \in DOMAIN sessions : hist[s].calls = "qualifying"
    /\ Cardinality(DOMAIN sessions) >= 2
    /\ Date(now) \notin DOMAIN baseline
    /\ StatsByDate(daily_stats, Date(now)).pomodoros_completed
            = Cardinality(DOMAIN sessions)

(* C4: when no command is in flight and none was aborted, pomodoros_completed of
   every date is the number of counted sessions whose completion event happened on
   that date *)
C4_PomodorosMatchLog ==
    (Quiescent /\ \A s \in DOMAIN sessions : hist[s].calls # "aborted")
    => \A d \in Dates :
        StatsByDate(daily_stats, d).pomodoros_completed
            = Cardinality({s \in DOMAIN sessions :
                            Counted(sessions[s]) /\ hist[s].on = d})

LinkedTo(task_id) == {s \in DOMAIN sessions : sessions[s].task_id = task_id}

(* every session of the task has been completed at most once, by a call that has
   returned Ok *)
CompletedOnce(task_id) ==
    \A s \in LinkedTo(task_id) : hist[s].calls \in {"none", "qualifying", "plain"}

(* C5: for a task whose sessions have each been completed at most once,
   actual_pomodoros is the number of its work sessions completed with was_completed
   and not was_interrupted *)
C5_ActualPomodorosIsN ==
    \A t \in DOMAIN tasks :
        CompletedOnce(t)
        => tasks[t].actual_pomodoros
            = Cardinality({s \in LinkedTo(t) : hist[s].calls = "qualifying"})

C5_Witness ==
    \E t \in DOMAIN tasks :
        /\ CompletedOnce(t)
        /\ Cardinality({s \in LinkedTo(t) : hist[s].calls = "qualifying"}) = 2
        /\ tasks[t].actual_pomodoros = 2

(* C6: the statement that bumps today's row for a completed work session adds the
   session's duration_minutes to total_work_time *)
C6_WorkTimeIsDuration ==
    [][\A p \in Procs :
        complete_pomodoro_session_stats(p)
        => StatsByDate(daily_stats', Date(now)).total_work_time
            = StatsByDate(daily_stats, Date(now)).total_work_time
              + sessions[procs[p].id].duration_minutes]_vars

(* C7: the bump of complete_task adds 1 to today's tasks_completed and leaves
   today's pomodoros_completed and total_work_time as they were *)
C7_TaskBumpKeepsPomodoros ==
    [][\A p \in Procs :
        complete_task_stats(p)
        => LET before == StatsByDate(daily_stats, Date(now))
               after == StatsByDate(daily_stats', Date(now))
           IN /\ after.tasks_completed = before.tasks_completed + 1
              /\ after.pomodoros_completed = before.pomodoros_completed
              /\ after.total_work_time = before.total_work_time]_vars

(* C8: when no command is in flight, tasks_completed of every date is the number of
   tasks that are completed with a completion timestamp on that date *)
C8_TasksCompletedMatchLog ==
    Quiescent
    => \A d \in Dates :
        StatsByDate(daily_stats, d).tasks_completed
            = Cardinality({t \in DOMAIN tasks :
                            tasks[t].completed /\ Date(tasks[t].completed_at) = d})

(* C9: a complete_task call with an id that no task has changes no table and
   returns an error *)
C9_CompleteTaskNotFound ==
    [][\A p \in Procs :
        /\ \A completed \in BOOLEAN :
            complete_task_update(p, BogusId, completed)
            => /\ <<tasks, sessions, daily_stats>>' = <<tasks, sessions, daily_stats>>
               /\ ~completed => response'.ret = "err"
        /\ (complete_task_stats(p) /\ procs[p].prev = "absent")
            => /\ <<tasks, sessions, daily_stats>>' = <<tasks, sessions, daily_stats>>
               /\ response'.ret = "err"]_vars

(* C10: complete_task changes daily_stats exactly when its UPDATE moved the task
   from not completed to completed *)
C10_BumpOnlyOnTransition ==
    [][\A p \in Procs :
        /\ \A task_id \in DOMAIN tasks :
            complete_task_update(p, task_id, FALSE) => daily_stats' = daily_stats
        /\ (complete_task_stats(p) /\ procs[p].prev # "absent")
            => (daily_stats' # daily_stats <=> procs[p].prev = "open")]_vars

(* C11: delete_task on a task that sessions reference succeeds and removes the task
   row only: every other task row, every daily_stats row and every session stays,
   the sessions that referenced the task with task_id = NULL and their other fields
   unchanged, the other sessions unchanged *)
C11_DeleteNullsTheLink ==
    [][\A task_id \in DOMAIN tasks :
        (/\ ncmds' # ncmds
         /\ \E s \in DOMAIN sessions : sessions[s].task_id = task_id
         /\ delete_task(task_id))
        => /\ response'.ret = "ok"
           /\ DOMAIN tasks' = DOMAIN tasks \ {task_id}
           /\ \A t \in DOMAIN tasks' : tasks'[t] = tasks[t]
           /\ daily_stats' = daily_stats
           /\ DOMAIN sessions' = DOMAIN sessions
           /\ \A s \in DOMAIN sessions :
                sessions'[s] = IF sessions[s].task_id = task_id
                               THEN [sessions[s] EXCEPT !.task_id = NULL]
                               ELSE sessions[s]]_vars

C11_Witness ==
    /\ response.cmd = "delete_task"
    /\ response.result # {}
    /\ \A s \in response.result :
        /\ s \in DOMAIN sessions
        /\ sessions[s].task_id = NULL
        /\ sessions[s].session_type = "work"

(* the step inserts one session row, not completed and not interrupted, with the
   values given, and returns its id *)
InsertsOneSession(task_id, session_type, duration_minutes) ==
    /\ response'.ret = "ok"
    /\ response'.id \notin DOMAIN sessions
    /\ DOMAIN sessions' = DOMAIN sessions \cup {response'.id}
    /\ \A s \in DOMAIN sessions : sessions'[s] = sessions[s]
    /\ sessions'[response'.id] =
            [task_id |-> task_id, session_type |-> session_type,
             duration_minutes |-> duration_minutes, started_at |-> now,
             completed_at |-> NULL, interrupted |-> FALSE]

RejectsSession ==
    /\ response'.ret = "err"
    /\ sessions' = sessions

(* C18 as claimed: start_pomodoro_session with a session_type outside the three
   returns an error and inserts no row; with a session_type among them it inserts
   one row with completed_at absent and interrupted false *)
C18_StartChecksTypeOnly ==
    [][\A task_id \in LinkInputs, i \in StartInputs :
        start_pomodoro_session(task_id, i[1], i[2])
        => IF i[1] \in SessionTypes
           THEN InsertsOneSession(task_id, i[1], i[2])
           ELSE RejectsSession]_vars

(* C18, amended: start_pomodoro_session with a session_type outside the three
   returns an error and inserts no row; with a session_type among them and a
   task_id that is absent or the id of a task there is, it inserts one row with
   completed_at absent and interrupted false *)
C18_StartChecksType ==
    [][\A task_id \in LinkInputs, i \in StartInputs :
        (ncmds' # ncmds /\ start_pomodoro_session(task_id, i[1], i[2]))
        => /\ i[1] \notin SessionTypes => RejectsSession
           /\ (i[1] \in SessionTypes /\ (task_id = NULL \/ task_id \in DOMAIN tasks))
                => InsertsOneSession(task_id, i[1], i[2])]_vars

C18_Witness ==
    /\ response.cmd = "start_pomodoro_session"
    /\ response.ret = "err"
    /\ Cardinality(DOMAIN sessions) = 2
    /\ \A s \in DOMAIN sessions :
        /\ sessions[s].completed_at = NULL
        /\ ~sessions[s].interrupted
        /\ sessions[s].session_type \in SessionTypes

(* C19: get_daily_stats_by_date of a date that has no daily_stats row returns Ok
   with that date and zero pomodoros_completed, total_work_time and
   tasks_completed, and creates no row *)
C19_NoRowReadsZero ==
    [][\A date \in Dates :
        (/\ ncmds' # ncmds
         /\ date \notin DOMAIN daily_stats
         /\ get_daily_stats_by_date(date))
        => /\ response'.ret = "ok"
           /\ response'.result = [date |-> date, pomodoros_completed |-> 0,
                                   total_work_time |-> 0, tasks_completed |-> 0]
           /\ daily_stats' = daily_stats]_vars

C19_Witness ==
    /\ response.cmd = "get_daily_stats_by_date"
    /\ response.ret = "ok"
    /\ response.result.date \notin DOMAIN daily_stats
    /\ response.result.tasks_completed = 0
    /\ daily_stats # EmptyTable

(* the dates of the trailing window of so many days: from that many days before
   today up to today *)
TrailingWindow(days) ==
    LET days_limit == IF days = NULL THEN DefaultDays ELSE days IN
    {d \in Dates : d <= Date(now) /\ Date(now) - d <= days_limit}

(* C20: get_focus_heatmap returns one point for each date of the trailing window
   that has a counted session (work, not interrupted, completed) and none for any
   other date; the count of a point is the number of counted sessions of its date,
   so at least 1, its level is at least 1, and the dates ascend strictly *)
C20_HeatmapPoints ==
    [][\A days \in DaysInputs :
        get_focus_heatmap(days)
        => LET r == response'.result IN
           /\ \A d \in Dates :
                Cardinality({i \in DOMAIN r : r[i].date = d})
                    = IF d \in TrailingWindow(days) /\ HeatmapGroup(sessions, d) # {}
                      THEN 1 ELSE 0
           /\ \A i \in DOMAIN r :
                /\ r[i].date \in Dates
                /\ r[i].count = Cardinality(HeatmapGroup(sessions, r[i].date))
                /\ r[i].count >= 1
                /\ r[i].level >= 1
           /\ \A i, j \in DOMAIN r : i < j => r[i].date < r[j].date]_vars

(* C22: in the result of export_data the tasks are in the order of get_tasks
   (priority descending, then created_at descending), the sessions newest first
   by started_at and the daily_stats rows newest first by date *)
C22_ExportOrders ==
    (response.cmd = "export_data" /\ response.ret = "ok") =>
        LET r == response.result IN
        /\ \A i, j \in DOMAIN r.tasks :
                i < j => TaskBefore(r.tasks[i].row, r.tasks[j].row)
        /\ \A i, j \in DOMAIN r.pomodoro_sessions :
                i < j => r.pomodoro_sessions[i].row.started_at
                            >= r.pomodoro_sessions[j].row.started_at
        /\ \A i, j \in DOMAIN r.daily_stats :
                i < j => r.daily_stats[i].id > r.daily_stats[j].id

(* the handler waits in pool.get() and no connection is idle *)
Blocked(p) == procs[p].pc = "pool_get" /\ CheckedOut = PoolSize

(* C23: in no state is every handler in flight blocked in pool.get() with all the
   connections of the pool held by those blocked handlers *)
C23_NoPoolDeadlock ==
    ~(/\ \E p \in Procs : Blocked(p)
      /\ \A p \in Procs : procs[p].pc # "idle" => Blocked(p)
      /\ \A p \in Procs : procs[p].conns > 0 => Blocked(p))

(* a handler waits for the connection another handler holds *)
C23_Witness ==
    \E p, q \in Procs :
        /\ Blocked(p)
        /\ procs[q].pc = "statements" /\ procs[q].conns = 1
        /\ procs[q].cmd = "complete_pomodoro_session"

(* C21: the level of a point is the bucket of its count (0 gives 0, 1 to 2 gives 1,
   3 to 5 gives 2, 6 to 9 gives 3, 10 or more gives 4: the number of the bucket
   starts 1, 3, 6, 10 the count has reached), and of two points the one with the
   smaller count has no greater level *)
C21_LevelIsBucketOfCount ==
    response.cmd = "heatmap_row" =>
        \A i, j \in 1..2 :
            LET a == response.result[i]
                b == response.result[j]
            IN /\ a.level = Cardinality({k \in {1, 3, 6, 10} : a.count >= k})
               /\ a.count <= b.count => a.level <= b.level

C21_Witness ==
    /\ response.cmd = "heatmap_row"
    /\ response.result[1].count = 5 /\ response.result[1].level = 2
    /\ response.result[2].count = 10 /\ response.result[2].level = 4

(* C24: a complete_pomodoro_session call, with any was_completed and
   was_interrupted, on a session whose completed_at is present leaves that
   completed_at as it is *)
C24_CompletedAtSetOnce ==
    [][\A p \in Procs, session_id \in DOMAIN sessions,
         was_completed \in BOOLEAN, was_interrupted \in BOOLEAN :
            (/\ ncmds' # ncmds
             /\ sessions[session_id].completed_at # NULL
             /\ complete_pomodoro_session_update(p, session_id, was_completed,
                                                 was_interrupted))
            => sessions'[session_id].completed_at
                    = sessions[session_id].completed_at]_vars

(* the step is the counter statement of a complete_pomodoro_session call with
   was_completed and not was_interrupted, on a work session of the task *)
QualifyingBump(task_id) ==
    \E p \in Procs :
        /\ procs[p].pc = "cps_task"
        /\ procs[p].cmd = "complete_pomodoro_session"
        /\ procs[p].completed /\ ~procs[p].interrupted
        /\ procs[p].id \in DOMAIN sessions
        /\ sessions[procs[p].id].session_type = "work"
        /\ sessions[procs[p].id].task_id = task_id
        /\ complete_pomodoro_session_task(p)

(* C25: actual_pomodoros of a task is never negative and never goes down while
   the task exists, and the only step that changes it is that of a
   complete_pomodoro_session call with was_completed = true and was_interrupted =
   false on a work session whose task_id is the task *)
C25_ActualPomodorosOnlyGrows ==
    [][\A task_id \in DOMAIN tasks \cap DOMAIN tasks' :
        /\ tasks[task_id].actual_pomodoros >= 0
        /\ tasks'[task_id].actual_pomodoros >= tasks[task_id].actual_pomodoros
        /\ tasks'[task_id].actual_pomodoros # tasks[task_id].actual_pomodoros
            => QualifyingBump(task_id)]_vars

C25_Witness ==
    \E task_id \in DOMAIN tasks :
        /\ tasks[task_id].actual_pomodoros = 1
        /\ tasks[task_id].priority = 1
        /\ tasks[task_id].completed
        /\ Quiescent

(* C26: no step removes a pomodoro_sessions row, and no step changes the
   session_type, duration_minutes or started_at of a row (its id is its key) *)
C26_SessionLogAppendOnly ==
    [][\A session_id \in DOMAIN sessions :
        /\ session_id \in DOMAIN sessions'
        /\ sessions'[session_id].session_type = sessions[session_id].session_type
        /\ sessions'[session_id].duration_minutes
                = sessions[session_id].duration_minutes
        /\ sessions'[session_id].started_at = sessions[session_id].started_at]_vars

(* a session started at one time and completed, interrupted, at a later time *)
C26_Witness ==
    \E session_id \in DOMAIN sessions :
        /\ sessions[session_id].started_at = 0
        /\ sessions[session_id].completed_at = 1
        /\ sessions[session_id].interrupted
        /\ sessions[session_id].duration_minutes = 50
        /\ Quiescent

(* the call worker p runs is a complete_pomodoro_session on a session there is
   that is not a work session, or with was_completed false or was_interrupted
   true *)
NotCounted(p) ==
    /\ procs[p].cmd = "complete_pomodoro_session"
    /\ procs[p].id \in DOMAIN sessions
    /\ \/ sessions[procs[p].id].session_type # "work"
       \/ ~procs[p].completed
       \/ procs[p].interrupted

(* C27: the UPDATE of complete_pomodoro_session leaves completed_at of the session
   the current time if was_completed and absent if not, and interrupted
   was_interrupted; and every step of a call on a session that is not a work
   session, or with was_completed false or was_interrupted true, leaves tasks and
   daily_stats as they are, the call ending after its SELECT *)
C27_CompletionFrame ==
    [][\A p \in Procs :
        /\ \A session_id \in DOMAIN sessions,
              was_completed \in BOOLEAN, was_interrupted \in BOOLEAN :
                (/\ ncmds' # ncmds
                 /\ complete_pomodoro_session_update(p, session_id, was_completed,
                                                     was_interrupted))
                => /\ (sessions'[session_id].completed_at = now) <=> was_completed
                   /\ ~was_completed => sessions'[session_id].completed_at = NULL
                   /\ sessions'[session_id].interrupted = was_interrupted
                   /\ \/ Qualifies(sessions[session_id].session_type, was_completed,
                                    was_interrupted)
                      \/ tasks' = tasks /\ daily_stats' = daily_stats
        /\ (procs'[p] # procs[p] /\ NotCounted(p))
            => /\ tasks' = tasks
               /\ daily_stats' = daily_stats
               /\ procs'[p].pc = "idle"]_vars

(* a completed short break: the row is stamped and no statistics row is written *)
C27_Witness ==
    /\ response.cmd = "complete_pomodoro_session" /\ response.ret = "ok"
    /\ response.id \in DOMAIN sessions
    /\ sessions[response.id].session_type = "short_break"
    /\ sessions[response.id].completed_at = 1
    /\ ~sessions[response.id].interrupted
    /\ daily_stats = EmptyTable
    /\ Quiescent

(* completed_at of the task is present exactly when its completed flag is true *)
StampedIffCompleted(row) == (row.completed_at # NULL) <=> row.completed

(* C28: before and after every step, completed_at of each task is present exactly
   when its completed flag is true; a complete_task(id, true) leaves the task
   completed with completed_at the current time, a complete_task(id, false) leaves
   it not completed with no completed_at; and no other step changes either *)
C28_CompletedAtIffCompleted ==
    [][/\ \A task_id \in DOMAIN tasks : StampedIffCompleted(tasks[task_id])
       /\ \A task_id \in DOMAIN tasks' : StampedIffCompleted(tasks'[task_id])
       /\ \A task_id \in DOMAIN tasks :
            /\ \A p \in Procs, completed \in BOOLEAN :
                    (ncmds' # ncmds /\ complete_task_update(p, task_id, completed))
                    => /\ tasks'[task_id].completed = completed
                       /\ tasks'[task_id].completed_at
                            = IF completed THEN now ELSE NULL
            /\ (/\ task_id \in DOMAIN tasks'
                /\ \/ tasks'[task_id].completed # tasks[task_id].completed
                   \/ tasks'[task_id].completed_at # tasks[task_id].completed_at)
               => \E p \in Procs, completed \in BOOLEAN :
                        complete_task_update(p, task_id, completed)]_vars

(* a task completed and then made open again: today's row keeps the completion *)
C28_Witness ==
    /\ response.cmd = "complete_task" /\ response.ret = "ok"
    /\ response.id \in DOMAIN tasks
    /\ ~tasks[response.id].completed
    /\ tasks[response.id].completed_at = NULL
    /\ Date(now) \in DOMAIN daily_stats
    /\ daily_stats[Date(now)].tasks_completed = 1
    /\ Quiescent

(* C29: a complete_task(id, true) call on a task that is already completed leaves
   its completed_at as it is, and a completed_at that is present changes only by
   being cleared by a complete_task(id, false) *)
C29_CompletedAtOncePerCompletion ==
    [][\A task_id \in DOMAIN tasks \cap DOMAIN tasks' :
        /\ \A p \in Procs :
                (/\ ncmds' # ncmds
                 /\ tasks[task_id].completed
                 /\ complete_task_update(p, task_id, TRUE))
                => tasks'[task_id].completed_at = tasks[task_id].completed_at
        /\ (/\ tasks[task_id].completed_at # NULL
            /\ tasks'[task_id].completed_at # tasks[task_id].completed_at)
           => /\ tasks'[task_id].completed_at = NULL
              /\ \E p \in Procs : complete_task_update(p, task_id, FALSE)]_vars

(* C30: update_task leaves the addressed task with the text, priority and
   estimated_pomodoros given and with its created_at, completed, completed_at and
   actual_pomodoros as they were (its id is its key), and leaves every other task,
   every session and every daily_stats row as it was *)
C30_UpdateTaskFrame ==
    [][\A task_id \in DOMAIN tasks, u \in UpdateInputs :
        (ncmds' # ncmds /\ update_task(task_id, u[1], u[2], u[3]))
        => /\ DOMAIN tasks' = DOMAIN tasks
           /\ tasks'[task_id].text = u[1]
           /\ tasks'[task_id].priority = u[2]
           /\ tasks'[task_id].estimated_pomodoros = u[3]
           /\ tasks'[task_id].created_at = tasks[task_id].created_at
           /\ tasks'[task_id].completed = tasks[task_id].completed
           /\ tasks'[task_id].completed_at = tasks[task_id].completed_at
           /\ tasks'[task_id].actual_pomodoros = tasks[task_id].actual_pomodoros
           /\ \A other \in DOMAIN tasks \ {task_id} : tasks'[other] = tasks[other]
           /\ sessions' = sessions
           /\ daily_stats' = daily_stats]_vars

(* one of two tasks updated, the other as add_task left it *)
C30_Witness ==
    /\ response.cmd = "update_task" /\ response.ret = "ok"
    /\ Cardinality(DOMAIN tasks) = 2
    /\ response.id \in DOMAIN tasks
    /\ tasks[response.id].text = "b"
    /\ \E other \in DOMAIN tasks \ {response.id} : tasks[other] = Task("a", 0)

(* worker p is past the SELECT of a qualifying complete_pomodoro_session call on a
   session with no linked task: the session was started without one, or its task
   is deleted (the session's task_id then NULL or left dangling) *)
CompletesUnlinked(p) ==
    /\ procs[p].pc \in {"cps_task", "cps_stats"}
    /\ procs[p].task_id = NULL \/ procs[p].task_id \notin DOMAIN tasks

(* C31: the statements of a qualifying completion of a session with no linked task
   change no tasks row, and the call, when none of its statements fails on the
   storage, returns Ok with pomodoros_completed of today one more than it was *)
C31_UnlinkedCompletionCounts ==
    [][\A p \in Procs :
        (procs'[p] # procs[p] /\ CompletesUnlinked(p) /\ ~Abort(p))
        => /\ tasks' = tasks
           /\ IF procs[p].pc = "cps_task"
              THEN procs'[p].pc = "cps_stats" /\ daily_stats' = daily_stats
              ELSE /\ response'.cmd = "complete_pomodoro_session"
                   /\ response'.id = procs[p].id
                   /\ response'.ret = "ok"
                   /\ procs'[p].pc = "idle"
                   /\ StatsByDate(daily_stats', Date(now)).pomodoros_completed
                        = StatsByDate(daily_stats, Date(now)).pomodoros_completed + 1
                   /\ \A date \in DOMAIN daily_stats \ {Date(now)} :
                        daily_stats'[date] = daily_stats[date]]_vars

(* the completion of a session whose task was deleted has returned: the first row
   of the date counts it *)
C31_Witness ==
    /\ response.cmd = "complete_pomodoro_session" /\ response.ret = "ok"
    /\ tasks = EmptyTable
    /\ sessions[response.id].task_id = 1
    /\ hist[response.id].calls = "qualifying"
    /\ Date(now) \notin DOMAIN baseline
    /\ daily_stats[Date(now)].pomodoros_completed = 1

(* C32: a complete_pomodoro_session call with an id that no session has leaves
   tasks, pomodoro_sessions and daily_stats as they were at each of its statements
   and returns an error *)
C32_CompleteSessionNotFound ==
    [][\A p \in Procs :
        /\ \A was_completed \in BOOLEAN, was_interrupted \in BOOLEAN :
            (/\ ncmds' # ncmds
             /\ complete_pomodoro_session_update(p, BogusId, was_completed,
                                                 was_interrupted))
            => /\ <<tasks, sessions, daily_stats>>' = <<tasks, sessions, daily_stats>>
               /\ procs'[p].pc = "cps_select"
        /\ (/\ procs[p].pc = "cps_select"
            /\ procs[p].id \notin DOMAIN sessions
            /\ procs'[p] # procs[p])
            => /\ <<tasks, sessions, daily_stats>>' = <<tasks, sessions, daily_stats>>
               /\ response'.cmd = "complete_pomodoro_session"
               /\ response'.id = procs[p].id
               /\ response'.ret \in {"err", "aborted"}
               /\ procs'[p].pc = "idle"]_vars

(* the call on an id of no session has returned its error, with sessions there *)
C32_Witness ==
    /\ response.cmd = "complete_pomodoro_session"
    /\ response.id = BogusId
    /\ response.ret = "err"
    /\ sessions # EmptyTable
    /\ \A s \in DOMAIN sessions : sessions[s].completed_at = NULL
    /\ daily_stats = EmptyTable

RECURSIVE CountedMinutes(_)
CountedMinutes(rows) ==
    IF rows = <<>> THEN 0
    ELSE (IF Counted(Head(rows).row) THEN Head(rows).row.duration_minutes ELSE 0)
         + CountedMinutes(Tail(rows))

(* C33: total_time_spent of a get_task_with_stats result is the sum of
   duration_minutes over the counted sessions of the task it lists (work, with
   completed_at present, not interrupted): a work session still running adds
   nothing *)
C33_TotalTimeOfCounted ==
    (response.cmd = "get_task_with_stats" /\ response.ret = "ok")
    => response.result.total_time_spent
            = CountedMinutes(response.result.pomodoro_sessions)

(* C34: when no command is in flight, actual_pomodoros of every task is the number
   of counted sessions (work, with completed_at present, not interrupted) linked to
   it, also after a session was completed more than once *)
C34_ActualPomodorosIsCounted ==
    Quiescent =>
        \A task_id \in DOMAIN tasks :
            tasks[task_id].actual_pomodoros
                = Cardinality({s \in LinkedTo(task_id) : Counted(sessions[s])})

(* the count a heatmap reports for a date: that of its point, 0 when it has none *)
ReportedCount(points, date) ==
    IF \E i \in DOMAIN points : points[i].date = date
    THEN points[CHOOSE i \in DOMAIN points : points[i].date = date].count
    ELSE 0

(* C35: with no command in flight, every session completed at most once and no
   call aborted, the count get_focus_heatmap reports for a date of its window is
   pomodoros_completed of get_daily_stats_by_date for that date, also for a session
   started on one date and completed on the next *)
C35_HeatmapAgreesWithStats ==
    [][\A days \in DaysInputs :
        (/\ ncmds' # ncmds
         /\ Quiescent
         /\ \A s \in DOMAIN sessions :
                hist[s].calls \in {"none", "plain", "qualifying"}
         /\ get_focus_heatmap(days))
        => \A date \in Dates :
                (StartDate(days, now) <= date /\ date <= Date(now))
                => ReportedCount(response'.result, date)
                    = StatsByDate(daily_stats, date).pomodoros_completed]_vars

(* no task was ever deleted: every id add_task gave out has its row.  In every
   store state of such a behaviour each session's task_id is NULL or the id of a
   row of tasks, since a session is linked only to an id add_task returned *)
NoTaskDeleted == DOMAIN tasks = 1..uuids.task

(* C36: the lists of one export_data result reflect one store state; here, for one
   property of every single store state: when no task was ever deleted, every
   session of the export that has a task_id has its task in the export's tasks *)
C36_ExportIsSnapshot ==
    (response.cmd = "export_data" /\ response.ret = "ok" /\ NoTaskDeleted)
    => \A i \in DOMAIN response.result.pomodoro_sessions :
            \/ response.result.pomodoro_sessions[i].row.task_id = NULL
            \/ \E j \in DOMAIN response.result.tasks :
                    response.result.tasks[j].id
                        = response.result.pomodoro_sessions[i].row.task_id

(* C37: no handler ever holds more than one connection; when no command is in
   flight no connection is out of the pool; and a handler that holds a connection
   in the end returns, Ok or Err, holding none *)
C37_ConnectionsGoBack ==
    /\ [](\A p \in Procs : procs[p].conns <= 1)
    /\ [](Quiescent => CheckedOut = 0)
    /\ \A p \in Procs :
            (procs[p].conns > 0) ~> (procs[p].pc = "idle" /\ procs[p].conns = 0)

(* a handler that held the connection has returned an error, and another Ok; no
   connection is out *)
C37_Witness ==
    /\ response.cmd = "handler" /\ response.ret = "err" /\ response.at = "end"
    /\ ncmds = MaxCmds
    /\ Quiescent
    /\ CheckedOut = 0

--------------------------------------------------------------------------
(* Properties of migrate_database *)

RecordedVersion(db) == CurrentVersion(db.schema.versions)

(* a run has returned, and none of its statements failed on the storage *)
Returned ==
    /\ migrator.pc = "idle"
    /\ response.cmd = "migrate_database"
    /\ response.ret # "aborted"
    /\ ~migrator.faults

(* the schema of version 2 *)
SchemaComplete ==
    /\ schema.tables = TableNames
    /\ schema.task_columns = TaskColumns

(* C12: while and after migrate_database runs on a database whose recorded version
   is DB_VERSION, with no failure of the storage, the recorded versions, the
   schema and the rows of tasks, pomodoro_sessions and daily_stats are what they
   were when the run began, in every run *)
C12_CurrentIsNoOp ==
    (RecordedVersion(migrator.before) = DB_VERSION /\ ~migrator.faults)
    => CurrentDatabase = migrator.before

C12_Witness ==
    /\ Returned
    /\ response.ret = "ok"
    /\ ncmds >= 2
    /\ RecordedVersion(migrator.before) = DB_VERSION
    /\ migrator.before.tasks # EmptyTable
    /\ migrator.before.sessions # EmptyTable
    /\ CurrentDatabase = migrator.before

(* the row as it reads after the three ADD COLUMN of version 2 *)
WithDefaults(row) ==
    [c \in TaskColumns |->
        IF c \in DOMAIN row THEN row[c]
        ELSE IF c = "estimated_pomodoros" THEN 1 ELSE 0]

(* C13: a run on a database of version 0 (no tables) or of version 1 (tasks with
   its original columns) ends with recorded version 2, the tables and columns of
   version 2, and every task row that was there with its original values and
   priority 0, estimated_pomodoros 1, actual_pomodoros 0 *)
C13_OldVersionsConverge ==
    (/\ Returned
     /\ RecordedVersion(migrator.before) \in {0, 1}
     /\ migrator.before.schema.task_columns \subseteq OriginalColumns)
    => /\ response.ret = "ok"
       /\ RecordedVersion(CurrentDatabase) = DB_VERSION
       /\ SchemaComplete
       /\ DOMAIN tasks = DOMAIN migrator.before.tasks
       /\ \A t \in DOMAIN tasks : tasks[t] = WithDefaults(migrator.before.tasks[t])

C13_Witness ==
    /\ Returned
    /\ migrator.before.schema.versions = {1}
    /\ migrator.before.schema.task_columns = OriginalColumns
    /\ Cardinality(DOMAIN migrator.before.tasks) = 2
    /\ SchemaComplete
    /\ tasks[2] = [text |-> "b", completed |-> TRUE, created_at |-> 1,
                    completed_at |-> 1, priority |-> 0, estimated_pomodoros |-> 1,
                    actual_pomodoros |-> 0]

(* C14: a run in which a statement whose error is propagated has failed has
   returned that error and the recorded versions are what they were before the
   run; and a run that has recorded the version has passed every statement of the
   bodies whose error is propagated: the tables are all there *)
C14_VersionRecordedLast ==
    /\ migrator.failed
        => /\ migrator.pc = "idle"
           /\ response.cmd = "migrate_database" /\ response.ret = "err"
           /\ schema.versions = migrator.before.schema.versions
    /\ schema.versions # migrator.before.schema.versions
        => /\ ~migrator.failed
           /\ schema.tables = TableNames

C14_Witness ==
    /\ migrator.failed
    /\ response.ret = "err"
    /\ response.at \in {"daily_stats", "record"}
    /\ "pomodoro_sessions" \in schema.tables
    /\ "pomodoro_sessions" \notin migrator.before.schema.tables
    /\ schema.versions = migrator.before.schema.versions

(* C15: a run that starts on what an interrupted run left (some columns added,
   some tables created, the version not recorded) and meets no failure of the
   storage returns Ok with the schema of version 2 and recorded version 2 *)
C15_InterruptedRunConverges ==
    (Returned /\ migrator.resumed /\ RecordedVersion(migrator.before) < DB_VERSION)
    => /\ response.ret = "ok"
       /\ SchemaComplete
       /\ RecordedVersion(CurrentDatabase) = DB_VERSION

C15_Witness ==
    /\ Returned /\ migrator.resumed
    /\ response.ret = "ok"
    /\ "priority" \in migrator.before.schema.task_columns
    /\ "actual_pomodoros" \notin migrator.before.schema.task_columns
    /\ RecordedVersion(migrator.before) < DB_VERSION
    /\ SchemaComplete

(* C16: no step of migrate_database removes a table, a column of tasks, a row of
   db_version or a task row, or changes the value a task row has in a column that
   was there; the rows of pomodoro_sessions and daily_stats stay *)
C16_MigrationIsAdditive ==
    [][/\ schema.tables \subseteq schema'.tables
       /\ schema.task_columns \subseteq schema'.task_columns
       /\ schema.versions \subseteq schema'.versions
       /\ DOMAIN tasks \subseteq DOMAIN tasks'
       /\ \A t \in DOMAIN tasks : \A c \in DOMAIN tasks[t] : tasks'[t][c] = tasks[t][c]
       /\ sessions' = sessions
       /\ daily_stats' = daily_stats]_vars

C16_Witness ==
    /\ migrator.pc = "bodies"
    /\ migrator.origin.schema.versions = {1}
    /\ schema.task_columns = OriginalColumns \cup {"priority"}
    /\ Cardinality(DOMAIN tasks) = 2
    /\ \A t \in DOMAIN tasks :
        /\ tasks[t].priority = 0
        /\ \A c \in OriginalColumns : tasks[t][c] = migrator.origin.tasks[t][c]

(* C17: after a run has moved a database from an older version to version 2,
   db_version holds one row, and it is 2 *)
C17_OneVersionRow ==
    (/\ Returned
     /\ response.ret = "ok"
     /\ RecordedVersion(migrator.before) < DB_VERSION)
    => schema.versions = {DB_VERSION}

(* C38: when migrate_database has returned Ok and the recorded version is 2, tasks
   has the three added columns priority, estimated_pomodoros and actual_pomodoros:
   an ADD COLUMN that failed for another reason than the column being there does
   not end with version 2 recorded *)
C38_VersionTwoHasColumns ==
    (/\ migrator.pc = "idle"
     /\ response.cmd = "migrate_database" /\ response.ret = "ok"
     /\ CurrentVersion(schema.versions) = DB_VERSION)
    => \A i \in DOMAIN AddedColumns : AddedColumns[i].column \in schema.task_columns

====
